---- MODULE Spec2Model ----
(***************************************************************************)
(* Model of tools/dfu.py: flashing a firmware image to a device in STM     *)
(* DfuSe mode.  Strings are sequences of one-character strings, byte       *)
(* arrays are sequences of 0..255, dictionaries are records.               *)
(***************************************************************************)
EXTENDS Integers, Sequences, FiniteSets, TLC

VARIABLES
    layout,          \* environment: the flash layout the attached device has
    alternates,      \* environment: what dfudev.alternates() reports: <<name, alt>>
    devMem,          \* environment: the device's memory, address -> byte
    devPtr,          \* environment: the device's address pointer
    devState,        \* environment: the DFU state the device is in
    faults,          \* environment: how often the device has strayed and the run went on
    faultBudget,     \* environment: how often the device is going to stray at most
    hexfile,         \* hexfile: the sparse image, address -> byte
    sectors,         \* sectors (line 300)
    touched_sectors, \* touched_sectors (line 311): <<sector, data>> pairs
    mainPc,          \* position of the main flow
    pass,            \* which loop of lines 318-360 the main flow is in
    idx,             \* index into touched_sectors of the entry being processed
    blocknum,        \* blocknum of flash() / read()
    observed_data,   \* data of read(), then observed_data of line 340
    lastStatus,      \* state of the last status the driver has read
    requests,        \* history: the requests issued to the DFU device, in order
    mismatch_pos,    \* mismatch_pos of line 343, -1 while there is none
    error,           \* the exception that ended the main flow, or "none"
    exitCode,        \* the exit status of the main flow, -1 while it runs
    stm_device,      \* stm_device: TRUE once usb.core.find has returned a device
    app_cancellation_token,          \* threading.Event of line 278
    find_odrive_cancellation_token,  \* threading.Event of line 279
    respPc,          \* position of put_odrive_into_dfu_mode_thread
    my_drive,        \* my_drive: "none", "capable" (has enter_dfu_mode) or "legacy"
    lateAttempts,    \* history: find_any calls begun after the discovery signal was set
    args,            \* args.uuid and args.serial_number (line 261), <<>> for None
    words,           \* environment: the three 32-bit words of the UUID in question
    serial_number,   \* serial_number (lines 270-275)
    platform,        \* environment: what platform.system() returns
    timers           \* the show_message_thread threads started so far

devVars == <<layout, alternates, devMem, devPtr, devState, faults, faultBudget>>
flashVars == <<sectors, touched_sectors, pass, idx, blocknum, observed_data,
               lastStatus, requests, mismatch_pos>>
mainVars == <<hexfile, flashVars, mainPc, error, exitCode, stm_device>>
respVars == <<respPc, my_drive, lateAttempts>>
tokens == <<app_cancellation_token, find_odrive_cancellation_token>>
sideVars == <<args, words, serial_number, platform, timers>>
vars == <<devVars, mainVars, respVars, tokens, sideVars>>

(***************************************************************************)
(* Characters and Python string helpers                                    *)
(***************************************************************************)
HexDigits == <<"0","1","2","3","4","5","6","7","8","9","A","B","C","D","E","F">>
LowerCase == <<"a","b","c","d","e","f","g","h","i","j","k","l","m",
               "n","o","p","q","r","s","t","u","v","w","x","y","z">>
UpperCase == <<"A","B","C","D","E","F","G","H","I","J","K","L","M",
               "N","O","P","Q","R","S","T","U","V","W","X","Y","Z">>

\* str.upper() of one character
LowerSet == {LowerCase[i] : i \in 1..Len(LowerCase)}
UpperOf == [c \in LowerSet |-> UpperCase[CHOOSE i \in 1..Len(LowerCase) : LowerCase[i] = c]]
Upper(c) == IF c \in LowerSet THEN UpperOf[c] ELSE c

\* value of a hexadecimal digit, -1 if c is none
HexSet == {HexDigits[i] : i \in 1..16}
HexOf == [c \in HexSet |-> (CHOOSE i \in 1..16 : HexDigits[i] = c) - 1]
HexVal(c) == IF Upper(c) \in HexSet THEN HexOf[Upper(c)] ELSE -1

IsDecDigit(c) == HexVal(c) \in 0..9

\* str.split(sep): the fields of s from position i on, cur being the field begun
RECURSIVE SplitFrom(_, _, _, _)
SplitFrom(s, sep, i, cur) ==
    IF i > Len(s) THEN <<cur>>
    ELSE IF s[i] = sep THEN <<cur>> \o SplitFrom(s, sep, i + 1, <<>>)
    ELSE SplitFrom(s, sep, i + 1, Append(cur, s[i]))

Split(s, sep) == SplitFrom(s, sep, 1, <<>>)

\* str.strip(c) for one character c; str.strip() is StripChar(s, " ")
RECURSIVE StripChar(_, _)
StripChar(s, c) ==
    IF s = <<>> THEN s
    ELSE IF s[1] = c THEN StripChar(Tail(s), c)
    ELSE IF s[Len(s)] = c THEN StripChar(SubSeq(s, 1, Len(s) - 1), c)
    ELSE s

\* the number a digit string denotes in the given base, most significant first
RECURSIVE DigitsValue(_, _)
DigitsValue(s, base) ==
    IF s = <<>> THEN 0
    ELSE DigitsValue(SubSeq(s, 1, Len(s) - 1), base) * base + HexVal(s[Len(s)])

\* int(s): a decimal literal with surrounding whitespace; -1 stands for ValueError
PyInt(str) ==
    LET s == StripChar(str, " ")
    IN  IF s # <<>> /\ \A i \in 1..Len(s) : IsDecDigit(s[i])
        THEN DigitsValue(s, 10)
        ELSE -1

\* int(s, 0): base taken from the prefix; -1 stands for ValueError
PyIntAuto(str) ==
    LET s == StripChar(str, " ")
    IN  IF Len(s) > 2 /\ s[1] = "0" /\ Upper(s[2]) = "X"
           /\ \A i \in 3..Len(s) : HexVal(s[i]) >= 0
        THEN DigitsValue(SubSeq(s, 3, Len(s)), 16)
        ELSE IF s # <<>> /\ (\A i \in 1..Len(s) : IsDecDigit(s[i]))
                /\ (s[1] # "0" \/ \A i \in 1..Len(s) : s[i] = "0")
        THEN DigitsValue(s, 10)
        ELSE -1

(***************************************************************************)
(* Sector Map Builder                                                      *)
(***************************************************************************)
SIZE_MULTIPLIERS == [c \in {" ", "K", "M"} |->
                        IF c = " " THEN 1 ELSE IF c = "K" THEN 1024 ELSE 1024 * 1024]

\* EmitSectors gone wrong: the address cursor stays where it is
RECURSIVE EmitSectorsStuck(_, _, _, _, _, _, _)
EmitSectorsStuck(label, alt, baseaddr, addr, size, mode, repeat) ==
    IF repeat > 0
    THEN <<[name |-> StripChar(StripChar(label, " "), "@"),
            alt |-> alt,
            baseaddr |-> baseaddr,
            addr |-> addr,
            len |-> size,
            mode |-> mode]>>
         \o EmitSectorsStuck(label, alt, baseaddr, addr, size, mode, repeat - 1)
    ELSE <<>>

\* the while loop of lines 57-69: repeat sectors of one layout term
RECURSIVE EmitSectors(_, _, _, _, _, _, _)
EmitSectors(label, alt, baseaddr, addr, size, mode, repeat) ==
    IF repeat > 0
    THEN <<[name |-> StripChar(StripChar(label, " "), "@"),
            alt |-> alt,
            baseaddr |-> baseaddr,
            addr |-> addr,
            len |-> size,
            mode |-> mode]>>
         \o EmitSectors(label, alt, baseaddr, addr + size, size, mode, repeat - 1)
    ELSE <<>>

\* lines 53-55 for one layout term: <<error, repeat, size, mode>>
ParseTerm(sector) ==
    LET nums == Split(SubSeq(sector, 1, Len(sector) - 2), "*")
    IN  IF Len(nums) # 2 \/ \E i \in 1..Len(nums) : PyInt(nums[i]) < 0
        THEN [err |-> "ValueError", repeat |-> 0, size |-> 0, mode |-> ""]
        ELSE IF Upper(sector[Len(sector) - 1]) \notin DOMAIN SIZE_MULTIPLIERS
        THEN [err |-> "KeyError", repeat |-> 0, size |-> 0, mode |-> ""]
        ELSE [err |-> "none",
              repeat |-> PyInt(nums[1]),
              size |-> PyInt(nums[2]) * SIZE_MULTIPLIERS[Upper(sector[Len(sector) - 1])],
              mode |-> sector[Len(sector)]]

\* the loop of lines 52-69 over the layout terms of one alternate
RECURSIVE LayoutSectors(_, _, _, _, _)
LayoutSectors(label, alt, baseaddr, addr, terms) ==
    IF terms = <<>> THEN [err |-> "none", sectors |-> <<>>]
    ELSE LET t == ParseTerm(Head(terms))
         IN  IF t.err # "none" THEN [err |-> t.err, sectors |-> <<>>]
             ELSE LET rest == LayoutSectors(label, alt, baseaddr,
                                            addr + t.repeat * t.size, Tail(terms))
                  IN  IF rest.err # "none" THEN rest
                      ELSE [err |-> "none",
                            sectors |-> EmitSectors(label, alt, baseaddr, addr,
                                                    t.size, t.mode, t.repeat)
                                        \o rest.sectors]

\* lines 48-69 for one alternate
AlternateSectors(name, alt) ==
    LET fields == Split(name, "/")
    IN  IF Len(fields) # 3 \/ PyIntAuto(fields[2]) < 0
        THEN [err |-> "ValueError", sectors |-> <<>>]
        ELSE LayoutSectors(fields[1], alt, PyIntAuto(fields[2]),
                           PyIntAuto(fields[2]), Split(fields[3], ","))

\* get_device_sectors consumed by list(): the sectors of all alternates, or
\* the exception that ends the enumeration
RECURSIVE get_device_sectors(_)
get_device_sectors(alts) ==
    IF alts = <<>> THEN [err |-> "none", sectors |-> <<>>]
    ELSE LET first == AlternateSectors(Head(alts)[1], Head(alts)[2])
         IN  IF first.err # "none" THEN first
             ELSE LET rest == get_device_sectors(Tail(alts))
                  IN  IF rest.err # "none" THEN rest
                      ELSE [err |-> "none", sectors |-> first.sectors \o rest.sectors]

(***************************************************************************)
(* The attached device's flash layout and the descriptor strings it        *)
(* reports for it (the example of line 47)                                 *)
(***************************************************************************)
MaxRepeat == 2
MaxSize == 2
MaxTerms == 2

\* n as `width` digits in the given base, zero padded
RECURSIVE Digits(_, _, _)
Digits(n, base, width) ==
    IF width = 0 THEN <<>>
    ELSE Digits(n \div base, base, width - 1) \o <<HexDigits[(n % base) + 1]>>

\* the unit letter of the i-th term: one letter for all, or mixed
UnitCycle == <<" ", "K", "M">>
UnitOf(a, i) == IF a.unit = "mix" THEN UnitCycle[((i - 1) % 3) + 1] ELSE a.unit

\* the i-th term of alternate a; a defect spoils the last term
RenderTerm(a, i) ==
    LET last == i = Len(a.terms)
    IN  (IF last /\ a.defect = "number" THEN <<"q">> ELSE Digits(a.terms[i].repeat, 10, 2))
        \o <<"*">> \o Digits(a.terms[i].size, 10, 3)
        \o <<IF last /\ a.defect = "unit" THEN "X" ELSE UnitOf(a, i),
              IF last /\ a.defect = "mode" THEN "z" ELSE a.mode>>

RECURSIVE RenderTerms(_, _)
RenderTerms(a, i) ==
    IF i = Len(a.terms) THEN RenderTerm(a, i)
    ELSE RenderTerm(a, i) \o <<",">> \o RenderTerms(a, i + 1)

\* '@Internal Flash  /0x08000000/04*016Kg,01*064Kg,07*128Kg'
RenderName(a) ==
    <<"@">> \o a.label \o <<"/", "0", "x">> \o Digits(a.base, 16, 8)
    \o (IF a.defect = "fields" THEN <<>> ELSE <<"/">> \o RenderTerms(a, 1))

RenderAlternates(lay) == [i \in 1..Len(lay) |-> <<RenderName(lay[i]), i - 1>>]

FlashBase == 134217728       \* 0x08000000
OtpBase == 536835072         \* 0x1FFF7800

Terms == [repeat : 1..MaxRepeat, size : 1..MaxSize]
TermLists == UNION {[1..n -> Terms] : n \in 1..MaxTerms}
Defects == {"none", "fields", "number", "unit", "mode"}
FlashAlternates == [label : {<<"F", "l", "a", "s", "h", " ", " ">>}, base : {FlashBase},
                    terms : TermLists, unit : {" ", "K", "M", "mix"},
                    mode : {"g"}, defect : Defects]
OtpAlternate == [label |-> <<"O", "T", "P">>, base |-> OtpBase,
                 terms |-> <<[repeat |-> 2, size |-> 512]>>, unit |-> " ",
                 mode |-> "e", defect |-> "none"]
Layouts == {<<a>> : a \in FlashAlternates} \cup {<<a, OtpAlternate>> : a \in FlashAlternates}

(***************************************************************************)
(* Firmware image (IntelHex)                                               *)
(***************************************************************************)
\* the elements of a finite set of integers in ascending order
RECURSIVE Sorted(_)
Sorted(S) ==
    IF S = {} THEN <<>>
    ELSE LET m == CHOOSE x \in S : \A y \in S : x <= y
         IN  <<m>> \o Sorted(S \ {m})

\* hexfile.segments(): the contiguous occupied ranges <<start, end>>, end exclusive
Segments(h) ==
    LET D == DOMAIN h
        starts == Sorted({a \in D : (a - 1) \notin D})
        EndOf(a) == CHOOSE e \in {x + 1 : x \in D} :
                        e > a /\ e \notin D /\ \A x \in a..(e - 1) : x \in D
    IN  [i \in 1..Len(starts) |-> <<starts[i], EndOf(starts[i])>>]

\* hexfile.tobinarray(start, end): end inclusive, gaps padded with 0xFF
ToBinArray(h, start, end) ==
    [k \in 1..(end - start + 1) |->
        IF (start + k - 1) \in DOMAIN h THEN h[start + k - 1] ELSE 255]

(***************************************************************************)
(* Target Selector                                                         *)
(***************************************************************************)
\* Touched gone wrong: every sector counts as touched
TouchedAlways(sector, segments) == TRUE

\* Touched gone wrong: a segment that ends where the sector starts counts
TouchedInclusive(sector, segments) ==
    \E i \in 1..Len(segments) :
        LET start == segments[i][1]
            end == segments[i][2]
        IN  \/ start < sector.addr /\ end >= sector.addr
            \/ start >= sector.addr /\ start < sector.addr + sector.len

\* lines 81-88: does a segment of the image overlap the sector
Touched(sector, segments) ==
    \E i \in 1..Len(segments) :
        LET start == segments[i][1]
            end == segments[i][2]
        IN  \/ start < sector.addr /\ end > sector.addr
            \/ start >= sector.addr /\ start < sector.addr + sector.len

\* populate_sectors consumed by list()
RECURSIVE populate_sectors(_, _)
populate_sectors(secs, h) ==
    IF secs = <<>> THEN <<>>
    ELSE (IF Touched(Head(secs), Segments(h))
          THEN <<<<Head(secs),
                   ToBinArray(h, Head(secs).addr, Head(secs).addr + Head(secs).len - 1)>>>>
          ELSE <<>>)
         \o populate_sectors(Tail(secs), h)

(***************************************************************************)
(* DFU State Machine Driver                                                *)
(***************************************************************************)
MAX_TRANSFER_SIZE == 2048

\* fractions.gcd
RECURSIVE gcd(_, _)
gcd(a, b) == IF b = 0 THEN a ELSE gcd(b, a % b)

\* get_first_mismatch_index gone wrong: the last unequal item is reported
GetLastMismatchIndex(array1, array2) ==
    IF Len(array1) # Len(array2) THEN -2
    ELSE IF \E pos \in 1..Len(array1) : array1[pos] # array2[pos]
    THEN (CHOOSE pos \in 1..Len(array1) :
              /\ array1[pos] # array2[pos]
              /\ \A q \in (pos + 1)..Len(array1) : array1[q] = array2[q]) - 1
    ELSE -1

\* get_first_mismatch_index: the position, -1 for None, -2 for the exception
get_first_mismatch_index(array1, array2) ==
    IF Len(array1) # Len(array2) THEN -2
    ELSE IF \E pos \in 1..Len(array1) : array1[pos] # array2[pos]
    THEN (CHOOSE pos \in 1..Len(array1) :
              /\ array1[pos] # array2[pos]
              /\ \A q \in 1..(pos - 1) : array1[q] = array2[q]) - 1
    ELSE -1

\* a request to the device, as the history records it
Request(op, addr, block, size, prev) ==
    [op |-> op, pass |-> pass, idx |-> idx, addr |-> addr, block |-> block,
     size |-> size, prev |-> prev]

\* the states a wait_while_state(busy) can end in: the state hoped for, the
\* busy state itself when the wait budget has elapsed, or the error state
PollOutcomes(busy, hoped) == {hoped, busy, "DFU_ERROR"}

\* PollOk gone wrong: only the error state counts as a failure
PollOkLax(status, required) == status # "DFU_ERROR"

\* the checks of lines 104, 109, 117, 132 and 177 on the status a wait ended with
PollOk(status, required) == status = required

\* the entry being processed
Entry == touched_sectors[idx]

\* the step that follows the last entry of a pass
NextPass(p) ==
    IF p = "erase" THEN [pass |-> "flash", pc |-> "alt"]
    ELSE IF p = "flash" THEN [pass |-> "verify", pc |-> "alt"]
    ELSE [pass |-> "jump", pc |-> "addr"]

\* Advance gone wrong: each sector is erased, programmed and verified in turn
AdvanceInterleaved(p, i) ==
    IF p = "erase" THEN [pass |-> "flash", idx |-> i, pc |-> "alt"]
    ELSE IF p = "flash" THEN [pass |-> "verify", idx |-> i, pc |-> "alt"]
    ELSE IF i < Len(touched_sectors) THEN [pass |-> "erase", idx |-> i + 1, pc |-> "alt"]
    ELSE [pass |-> "jump", idx |-> 0, pc |-> "addr"]

\* after entry i of pass p: the next entry of the pass, or the next pass
Advance(p, i) ==
    IF i < Len(touched_sectors)
    THEN [pass |-> p, idx |-> i + 1, pc |-> "alt"]
    ELSE IF NextPass(p).pass = "jump"
    THEN [pass |-> "jump", idx |-> 0, pc |-> "addr"]
    ELSE [pass |-> NextPass(p).pass, idx |-> 1, pc |-> "alt"]

\* a raised exception leaves every loop; the finally of line 362 is next
Raise(kind) ==
    /\ error' = kind
    /\ mainPc' = "finally"

(***************************************************************************)
(* The device behind dfudev                                                *)
(***************************************************************************)
\* the sectors the device has, from its layout: <<alt, addr, len>> records
RECURSIVE TermSectors(_, _, _, _, _)
TermSectors(a, alt, i, k, addr) ==
    IF i > Len(a.terms) THEN <<>>
    ELSE IF k > a.terms[i].repeat THEN TermSectors(a, alt, i + 1, 1, addr)
    ELSE LET len == a.terms[i].size * SIZE_MULTIPLIERS[UnitOf(a, i)]
         IN  <<[alt |-> alt, addr |-> addr, len |-> len, term |-> i]>>
             \o TermSectors(a, alt, i, k + 1, addr + len)

RECURSIVE DeviceSectorsFrom(_, _)
DeviceSectorsFrom(lay, n) ==
    IF n > Len(lay) THEN <<>>
    ELSE TermSectors(lay[n], n - 1, 1, 1, lay[n].base) \o DeviceSectorsFrom(lay, n + 1)

DeviceSectors(lay) == DeviceSectorsFrom(lay, 1)

DeviceAddrs(lay) ==
    UNION {DeviceSectors(lay)[i].addr ..
               (DeviceSectors(lay)[i].addr + DeviceSectors(lay)[i].len - 1)
           : i \in 1..Len(DeviceSectors(lay))}

DevByte(a) == IF a \in DOMAIN devMem THEN devMem[a] ELSE 255

\* erase-page at addr: the sector holding addr reads 0xFF afterwards
DevErase(addr) ==
    LET S == DeviceSectors(layout)
        hit == {i \in 1..Len(S) : S[i].addr <= addr /\ addr < S[i].addr + S[i].len}
    IN  [a \in DOMAIN devMem |->
            IF \E i \in hit : S[i].addr <= a /\ a < S[i].addr + S[i].len
            THEN 255 ELSE devMem[a]]

\* download of block number k: the chunk lands at pointer + k * transfer size
DevStore(k, block) ==
    LET at == devPtr + k * Len(block)
    IN  [a \in DOMAIN devMem |->
            IF at <= a /\ a < at + Len(block) THEN block[a - at + 1] ELSE devMem[a]]

\* upload of block number k
DevLoad(k, size) == [j \in 1..size |-> DevByte(devPtr + k * size + j - 1)]

\* a block with the byte at position p stored wrongly
Spoiled(block, p) == [block EXCEPT ![p] = (block[p] + 1) % 256]

MaxFaults == 1

(***************************************************************************)
(* Main flow, lines 298-362                                                *)
(***************************************************************************)
JUMP_ADDRESS == 134217728    \* 0x08000000, line 360

\* where the main flow goes once the sector map and the targets are known
Begin(targets) ==
    IF targets = <<>>
    THEN [pass |-> "jump", idx |-> 0, pc |-> "addr"]
    ELSE [pass |-> "erase", idx |-> 1, pc |-> "alt"]

Goto(g) ==
    /\ pass' = g.pass
    /\ idx' = g.idx
    /\ mainPc' = g.pc

\* line 300: sectors = list(get_device_sectors(dfudev))
BuildSectorMap ==
    /\ mainPc = "map"
    /\ LET r == get_device_sectors(alternates)
       IN  IF r.err = "none"
           THEN /\ sectors' = r.sectors
                /\ mainPc' = "populate"
                /\ error' = error
           ELSE /\ sectors' = sectors
                /\ Raise(r.err)
    /\ UNCHANGED <<sideVars, devVars, respVars, tokens, hexfile, touched_sectors, pass, idx,
                   blocknum, observed_data, lastStatus, requests, mismatch_pos,
                   exitCode, stm_device>>

\* line 311: touched_sectors = list(populate_sectors(sectors, hexfile))
Populate ==
    /\ mainPc = "populate"
    /\ touched_sectors' = populate_sectors(sectors, hexfile)
    /\ Goto(Begin(touched_sectors'))
    /\ UNCHANGED <<sideVars, devVars, respVars, tokens, hexfile, sectors, blocknum,
                   observed_data, lastStatus, requests, mismatch_pos, error,
                   exitCode, stm_device>>

\* set_alternate_safe, lines 94-98, called by erase, flash and read
SetAlternateSafe ==
    /\ mainPc = "alt"
    /\ \/ /\ requests' = Append(requests,
                    Request("set_alternate", Entry[1].alt, 0, 0, lastStatus))
          /\ lastStatus' = devState
          /\ UNCHANGED <<devState, faults>>
       \/ /\ faults < faultBudget
          /\ faults' = faults + 1
          /\ \E c \in PollOutcomes("DFU_ERROR", "DFU_IDLE") :
                /\ requests' = requests \o
                       <<Request("set_alternate", Entry[1].alt, 0, 0, lastStatus),
                         Request("clear_status", 0, 0, 0, "DFU_ERROR")>>
                /\ lastStatus' = c
                /\ devState' = c
    /\ mainPc' = IF pass = "erase" THEN "erase" ELSE "addr"
    /\ UNCHANGED <<sideVars, layout, alternates, devMem, devPtr, faultBudget, respVars, tokens,
                   hexfile, sectors, touched_sectors, pass, idx, blocknum,
                   observed_data, mismatch_pos, error, exitCode, stm_device>>

\* erase, lines 115-118
EraseCmd ==
    /\ mainPc = "erase"
    /\ requests' = Append(requests, Request("erase", Entry[1].addr, 0, 0, lastStatus))
    /\ \E o \in PollOutcomes("DFU_DOWNLOAD_BUSY", "DFU_DOWNLOAD_IDLE") :
          /\ lastStatus' = o
          /\ devState' = o
          /\ IF PollOk(o, "DFU_DOWNLOAD_IDLE")
             THEN /\ devMem' = DevErase(Entry[1].addr)
                  /\ Goto(Advance("erase", idx))
                  /\ error' = error
             ELSE /\ devMem' = devMem
                  /\ Raise("RuntimeError")
                  /\ UNCHANGED <<pass, idx>>
    /\ UNCHANGED <<sideVars, layout, alternates, devPtr, faults, faultBudget, respVars, tokens, hexfile,
                   sectors, touched_sectors, blocknum, observed_data, mismatch_pos,
                   exitCode, stm_device>>

\* the address set_address_safe is called with
TargetAddress == IF pass = "jump" THEN JUMP_ADDRESS ELSE Entry[1].addr

\* TransferSize gone wrong: a fixed chunk of four bytes, the sector when shorter
TransferSizeCapped(sector) == IF sector.len < 4 THEN sector.len ELSE 4

\* flash() and read(): transfer_size
TransferSize(sector) == gcd(sector.len, MAX_TRANSFER_SIZE)

\* flash(): how many blocks the comprehension of line 126 makes
BlockCount(data, ts) == (Len(data) + ts - 1) \div ts

\* read(): range(int(sector['len'] / transfer_size))
ReadCount(sector) == sector.len \div TransferSize(sector)

\* what follows a successful set_address_safe
AfterAddress ==
    IF pass = "jump" THEN [pass |-> "jump", idx |-> 0, pc |-> "leave"]
    ELSE IF pass = "flash"
    THEN (IF BlockCount(Entry[2], TransferSize(Entry[1])) > 0
          THEN [pass |-> "flash", idx |-> idx, pc |-> "write"]
          ELSE Advance("flash", idx))
    ELSE (IF ReadCount(Entry[1]) > 0
          THEN [pass |-> "verify", idx |-> idx, pc |-> "read"]
          ELSE [pass |-> "verify", idx |-> idx, pc |-> "rabort"])

\* set_address_safe, lines 101-110, called by flash, read and jump_to_application
SetAddressSafe ==
    /\ mainPc = "addr"
    /\ \E o1 \in PollOutcomes("DFU_DOWNLOAD_BUSY", "DFU_DOWNLOAD_IDLE") :
          IF ~PollOk(o1, "DFU_DOWNLOAD_IDLE")
          THEN /\ requests' = Append(requests,
                       Request("set_address", TargetAddress, 0, 0, lastStatus))
               /\ lastStatus' = o1
               /\ devState' = o1
               /\ devPtr' = devPtr
               /\ Raise("RuntimeError")
               /\ UNCHANGED <<pass, idx>>
          ELSE \E o2 \in PollOutcomes("DFU_DOWNLOAD_SYNC", "DFU_IDLE") :
               /\ requests' = requests \o
                       <<Request("set_address", TargetAddress, 0, 0, lastStatus),
                         Request("abort", 0, 0, 0, o1)>>
               /\ lastStatus' = o2
               /\ devState' = o2
               /\ devPtr' = TargetAddress
               /\ IF PollOk(o2, "DFU_IDLE")
                  THEN Goto(AfterAddress) /\ error' = error
                  ELSE Raise("RuntimeError") /\ UNCHANGED <<pass, idx>>
    /\ blocknum' = 0
    /\ observed_data' = <<>>
    /\ UNCHANGED <<sideVars, layout, alternates, devMem, faults, faultBudget, respVars, tokens, hexfile,
                   sectors, touched_sectors, mismatch_pos, exitCode, stm_device>>

\* Block gone wrong: every block is the first one
BlockFirst(data, ts, k) == SubSeq(data, 1, IF ts < Len(data) THEN ts ELSE Len(data))

\* flash(): blocks[blocknum], line 126
Block(data, ts, k) ==
    SubSeq(data, k * ts + 1, IF (k + 1) * ts < Len(data) THEN (k + 1) * ts ELSE Len(data))

\* flash(), lines 127-133: one turn of the loop
WriteBlock ==
    /\ mainPc = "write"
    /\ LET ts == TransferSize(Entry[1])
           block == Block(Entry[2], ts, blocknum)
       IN  /\ requests' = Append(requests,
                   Request("write", Entry[1].addr, blocknum, Len(block), lastStatus))
           /\ \E o \in PollOutcomes("DFU_DOWNLOAD_BUSY", "DFU_DOWNLOAD_IDLE") :
                 /\ lastStatus' = o
                 /\ devState' = o
                 /\ IF PollOk(o, "DFU_DOWNLOAD_IDLE")
                    THEN /\ \/ /\ devMem' = DevStore(blocknum, block)
                               /\ faults' = faults
                            \/ /\ faults < faultBudget
                               /\ \E p \in 1..Len(block) :
                                     devMem' = DevStore(blocknum, Spoiled(block, p))
                               /\ faults' = faults + 1
                         /\ IF blocknum + 1 < BlockCount(Entry[2], ts)
                            THEN /\ blocknum' = blocknum + 1
                                 /\ UNCHANGED <<mainPc, pass, idx>>
                            ELSE /\ blocknum' = blocknum
                                 /\ Goto(Advance("flash", idx))
                         /\ error' = error
                    ELSE /\ Raise("RuntimeError")
                         /\ UNCHANGED <<devMem, faults, blocknum, pass, idx>>
    /\ UNCHANGED <<sideVars, layout, alternates, devPtr, faultBudget, respVars, tokens, hexfile, sectors,
                   touched_sectors, observed_data, mismatch_pos, exitCode, stm_device>>

\* read(), lines 148-151: one turn of the loop
ReadBlock ==
    /\ mainPc = "read"
    /\ LET ts == TransferSize(Entry[1])
       IN  /\ requests' = Append(requests,
                   Request("read", Entry[1].addr, blocknum, ts, lastStatus))
           /\ observed_data' = observed_data \o DevLoad(blocknum, ts)
           /\ blocknum' = blocknum + 1
           /\ mainPc' = IF blocknum + 1 < ReadCount(Entry[1]) THEN "read" ELSE "rabort"
    /\ devState' = "DFU_UPLOAD_IDLE"
    /\ UNCHANGED <<sideVars, layout, alternates, devMem, devPtr, faults, faultBudget, respVars, tokens,
                   hexfile, sectors, touched_sectors, pass, idx, lastStatus,
                   mismatch_pos, error, exitCode, stm_device>>

\* read(), lines 152-153: take the device into DFU_IDLE and return data
ReadAbort ==
    /\ mainPc = "rabort"
    /\ requests' = Append(requests, Request("abort_upload", 0, 0, 0, lastStatus))
    /\ devState' = "DFU_IDLE"
    /\ mainPc' = "compare"
    /\ UNCHANGED <<sideVars, layout, alternates, devMem, devPtr, faults, faultBudget, respVars, tokens,
                   hexfile, sectors, touched_sectors, pass, idx, blocknum,
                   observed_data, lastStatus, mismatch_pos, error, exitCode,
                   stm_device>>

\* AfterCompare gone wrong: a mismatch does not stop the run
AfterCompareIgnore(m) == "next"

\* what the verify loop does with the result of get_first_mismatch_index
AfterCompare(m) ==
    IF m = -1 THEN "next" ELSE IF m = -2 THEN "Exception" ELSE "RuntimeError"

\* lines 341-348
Verify ==
    /\ mainPc = "compare"
    /\ LET m == get_first_mismatch_index(observed_data, Entry[2])
       IN  IF AfterCompare(m) = "next"
           THEN /\ Goto(Advance("verify", idx))
                /\ UNCHANGED <<error, mismatch_pos>>
           ELSE /\ Raise(AfterCompare(m))
                /\ mismatch_pos' = IF m >= 0 THEN m - (m % 16) ELSE mismatch_pos
                /\ UNCHANGED <<pass, idx>>
    /\ UNCHANGED <<sideVars, devVars, respVars, tokens, hexfile, sectors, touched_sectors,
                   blocknum, observed_data, lastStatus, requests, exitCode,
                   stm_device>>

\* jump_to_application, lines 175-178
Leave ==
    /\ mainPc = "leave"
    /\ requests' = Append(requests, Request("leave", 0, 0, 0, lastStatus))
    /\ \E o \in PollOutcomes("DFU_MANIFEST_SYNC", "DFU_MANIFEST") :
          /\ lastStatus' = o
          /\ devState' = o
          /\ IF PollOk(o, "DFU_MANIFEST")
             THEN mainPc' = "finally" /\ error' = error
             ELSE Raise("RuntimeError")
    /\ UNCHANGED <<sideVars, layout, alternates, devMem, devPtr, faults, faultBudget, respVars, tokens,
                   hexfile, sectors, touched_sectors, pass, idx, blocknum,
                   observed_data, mismatch_pos, exitCode, stm_device>>

\* Finally gone wrong: the discovery signal is left as it is
FinallyForgets ==
    /\ mainPc = "finally"
    /\ exitCode' = IF error = "none" THEN 0 ELSE 1
    /\ mainPc' = "end"
    /\ UNCHANGED <<sideVars, devVars, respVars, tokens, hexfile, flashVars, error,
                   stm_device>>

\* lines 361-362, then the interpreter ends the main thread
Finally ==
    /\ mainPc = "finally"
    /\ find_odrive_cancellation_token' = TRUE
    /\ exitCode' = IF error = "none" THEN 0 ELSE 1
    /\ mainPc' = "end"
    /\ UNCHANGED <<sideVars, devVars, respVars, app_cancellation_token, hexfile, flashVars,
                   error, stm_device>>

(***************************************************************************)
(* Device discovery: the main flow of lines 280-296                        *)
(***************************************************************************)
\* lines 281-284: start put_odrive_into_dfu_mode_thread
StartResponder ==
    /\ mainPc = "start"
    /\ respPc = "idle"
    /\ respPc' = "loop"
    /\ mainPc' = "poll"
    /\ UNCHANGED <<sideVars, devVars, tokens, hexfile, flashVars, error, exitCode, stm_device,
                   my_drive, lateAttempts>>

\* lines 287-292: one turn of the poll loop; usb.core.find finds a device in
\* DFU mode, finds none, or fails
PollDfu ==
    /\ mainPc = "poll"
    /\ IF app_cancellation_token
       THEN /\ mainPc' = "cancel"
            /\ UNCHANGED <<stm_device, error>>
       ELSE \/ /\ stm_device' = TRUE
               /\ mainPc' = "cancel"
               /\ error' = error
            \/ /\ stm_device' = FALSE
               /\ mainPc' = "poll"
               /\ error' = error
            \/ /\ stm_device' = FALSE
               /\ Raise("USBError")
    /\ UNCHANGED <<sideVars, devVars, respVars, tokens, hexfile, flashVars, exitCode>>

\* line 293
CancelSearch ==
    /\ mainPc = "cancel"
    /\ find_odrive_cancellation_token' = TRUE
    /\ mainPc' = "check"
    /\ UNCHANGED <<sideVars, devVars, respVars, app_cancellation_token, hexfile, flashVars,
                   error, exitCode, stm_device>>

\* CheckAbort gone wrong: the whole-program signal is not looked at
CheckAbortNever ==
    /\ mainPc = "check"
    /\ mainPc' = "map"
    /\ UNCHANGED <<sideVars, devVars, respVars, tokens, hexfile, flashVars, error,
                   exitCode, stm_device>>

\* lines 294-298: sys.exit(1) raises SystemExit
CheckAbort ==
    /\ mainPc = "check"
    /\ IF app_cancellation_token
       THEN Raise("SystemExit")
       ELSE mainPc' = "map" /\ error' = error
    /\ UNCHANGED <<sideVars, devVars, respVars, tokens, hexfile, flashVars, exitCode,
                   stm_device>>

(***************************************************************************)
(* put_odrive_into_dfu_mode_thread, lines 208-244                          *)
(***************************************************************************)
MaxLateAttempts == 2

\* AfterLoopCheck gone wrong: the loop does not look at the token
AfterLoopCheckBlind(cancelled) == "call"

\* line 216: while not cancellation_token.is_set()
AfterLoopCheck(cancelled) == IF cancelled THEN "done" ELSE "call"

ResponderLoop ==
    /\ respPc = "loop"
    /\ respPc' = AfterLoopCheck(find_odrive_cancellation_token)
    /\ UNCHANGED <<sideVars, devVars, mainVars, tokens, my_drive, lateAttempts>>

\* line 218: odrive.core.find_any is called
ResponderSearch ==
    /\ respPc = "call"
    /\ respPc' = "search"
    /\ lateAttempts' =
           IF find_odrive_cancellation_token /\ lateAttempts < MaxLateAttempts
           THEN lateAttempts + 1 ELSE lateAttempts
    /\ UNCHANGED <<sideVars, devVars, mainVars, tokens, my_drive>>

\* line 218: find_any returns a device running application firmware, or
\* returns empty-handed because its cancellation token is set
ResponderFound ==
    /\ respPc = "search"
    /\ \/ my_drive' \in {"capable", "legacy"}
       \/ find_odrive_cancellation_token /\ my_drive' = "none"
    /\ respPc' = "found"
    /\ UNCHANGED <<sideVars, devVars, mainVars, tokens, lateAttempts>>

\* lines 221-222
AfterMatch(cancelled) == IF cancelled THEN "done" ELSE "probe"

ResponderCheck ==
    /\ respPc = "found"
    /\ respPc' = AfterMatch(find_odrive_cancellation_token)
    /\ UNCHANGED <<sideVars, devVars, mainVars, tokens, my_drive, lateAttempts>>

\* lines 223-231
ResponderProbe ==
    /\ respPc = "probe"
    /\ IF my_drive # "capable"
       THEN /\ app_cancellation_token' = TRUE
            /\ respPc' = "done"
       ELSE /\ app_cancellation_token' = app_cancellation_token
            /\ respPc' = "enter"
    /\ UNCHANGED <<sideVars, devVars, mainVars, find_odrive_cancellation_token, my_drive,
                   lateAttempts>>

\* lines 232-236: my_drive.enter_dfu_mode(), the USBError swallowed
ResponderEnterDfu ==
    /\ respPc = "enter"
    /\ respPc' = "sleep"
    /\ UNCHANGED <<sideVars, devVars, mainVars, tokens, my_drive, lateAttempts>>

\* show_deferred_message, lines 193-206: the thread it starts
MaxTimers == 1
RANGE_START == 1     \* range(1,10), line 198
RANGE_STOP == 10

\* a show_message_thread at its start: i is the loop variable, slept counts the
\* time.sleep(1) calls that have returned, seen tells whether a check found the
\* token set, shown whether the message was printed
NewTimer ==
    [pc |-> IF RANGE_START < RANGE_STOP THEN "check" ELSE "final",
     i |-> RANGE_START, slept |-> 0, seen |-> FALSE, shown |-> FALSE]

\* lines 237-244: on Windows show_deferred_message starts a thread; then
\* time.sleep(1)
ResponderSleep ==
    /\ respPc = "sleep"
    /\ platform = "Windows" => Len(timers) < MaxTimers
    /\ timers' = IF platform = "Windows" THEN Append(timers, NewTimer) ELSE timers
    /\ respPc' = "loop"
    /\ UNCHANGED <<devVars, mainVars, tokens, my_drive, lateAttempts, args, words,
                   serial_number, platform>>

\* lines 198-200: the check at the head of a turn of the loop
TimerCheck ==
    /\ \E k \in 1..Len(timers) :
          /\ timers[k].pc = "check"
          /\ timers' = [timers EXCEPT ![k] =
                 IF find_odrive_cancellation_token
                 THEN [@ EXCEPT !.pc = "done", !.seen = TRUE]
                 ELSE [@ EXCEPT !.pc = "sleep"]]
    /\ UNCHANGED <<devVars, mainVars, respVars, tokens, args, words, serial_number,
                   platform>>

\* line 201: time.sleep(1) returns; the loop takes the next i of range(1,10)
TimerSleep ==
    /\ \E k \in 1..Len(timers) :
          /\ timers[k].pc = "sleep"
          /\ timers' = [timers EXCEPT ![k] =
                 [@ EXCEPT !.slept = @ + 1,
                           !.i = @ + 1,
                           !.pc = IF timers[k].i + 1 < RANGE_STOP
                                  THEN "check" ELSE "final"]]
    /\ UNCHANGED <<devVars, mainVars, respVars, tokens, args, words, serial_number,
                   platform>>

\* lines 202-203: the check after the loop, and the message
TimerShow ==
    /\ \E k \in 1..Len(timers) :
          /\ timers[k].pc = "final"
          /\ timers' = [timers EXCEPT ![k] =
                 IF find_odrive_cancellation_token
                 THEN [@ EXCEPT !.pc = "done", !.seen = TRUE]
                 ELSE [@ EXCEPT !.pc = "done", !.shown = TRUE]]
    /\ UNCHANGED <<devVars, mainVars, respVars, tokens, args, words, serial_number,
                   platform>>

(***************************************************************************)
(* Serial number selection, lines 180-188 and 270-275                      *)
(***************************************************************************)
\* Python values: an int, a tuple, or an exception raised.  An int is kept as
\* <<hi, lo>>, its value hi * 65536 + lo with lo in 0..65535, so that sums of
\* 32-bit words keep their carry
PyIntObj(n) == [type |-> "int", v |-> n]
PyTupleObj(t) == [type |-> "tuple", v |-> t]
PyRaised(kind) == [type |-> "error", v |-> <<kind>>]

HalfLimit == 65536

\* s[a:b]
Slice(s, a, b) == SubSeq(s, a + 1, IF b < Len(s) THEN b ELSE Len(s))

\* str.replace(c, '')
RECURSIVE RemoveChar(_, _)
RemoveChar(s, c) ==
    IF s = <<>> THEN s
    ELSE IF s[1] = c THEN RemoveChar(Tail(s), c)
    ELSE <<s[1]>> \o RemoveChar(Tail(s), c)

\* bytearray.fromhex(h): the bytes, or <<-1>> for ValueError
FromHex(h) ==
    IF Len(h) % 2 = 0 /\ \A i \in 1..Len(h) : HexVal(h[i]) >= 0
    THEN [j \in 1..(Len(h) \div 2) |-> 16 * HexVal(h[2 * j - 1]) + HexVal(h[2 * j])]
    ELSE <<-1>>

\* struct.unpack('>I', b): a tuple of one int, struct.error unless b has 4 bytes
StructUnpackI(b) ==
    IF Len(b) = 4
    THEN PyTupleObj(<<PyIntObj(<<b[1] * 256 + b[2], b[3] * 256 + b[4]>>)>>)
    ELSE PyRaised("struct.error")

\* struct.pack('>I', x): four bytes, most significant first; struct.error when
\* x is no int or does not fit 32 bits
StructPackI(x) ==
    IF x.type = "int" /\ x.v[1] >= 0 /\ x.v[1] < HalfLimit
    THEN PyTupleObj(<<x.v[1] \div 256, x.v[1] % 256, x.v[2] \div 256, x.v[2] % 256>>)
    ELSE PyRaised("struct.error")

\* a + b: the sum of two ints, the concatenation of two tuples
PyAdd(a, b) ==
    IF a.type = "int" /\ b.type = "int"
    THEN PyIntObj(<<a.v[1] + b.v[1] + ((a.v[2] + b.v[2]) \div HalfLimit),
                    (a.v[2] + b.v[2]) % HalfLimit>>)
    ELSE IF a.type = "tuple" /\ b.type = "tuple" THEN PyTupleObj(a.v \o b.v)
    ELSE PyRaised("TypeError")

\* bytes.hex(): two lower-case digits a byte
HexLower == <<"0","1","2","3","4","5","6","7","8","9","a","b","c","d","e","f">>

RECURSIVE BytesHex(_)
BytesHex(b) ==
    IF b = <<>> THEN <<>>
    ELSE <<HexLower[(b[1] \div 16) + 1], HexLower[(b[1] % 16) + 1]>> \o BytesHex(Tail(b))

\* str.upper()
UpperStr(str) == [i \in 1..Len(str) |-> Upper(str[i])]

\* str_to_uuid, lines 180-182: three values, each what struct.unpack returns
str_to_uuid(uuid) ==
    LET b == FromHex(RemoveChar(uuid, "-"))
    IN  IF b = <<-1>> THEN <<PyRaised("ValueError")>>
        ELSE LET u == <<StructUnpackI(Slice(b, 0, 4)), StructUnpackI(Slice(b, 4, 8)),
                        StructUnpackI(Slice(b, 8, 12))>>
             IN  IF \E n \in 1..3 : u[n].type = "error"
                 THEN <<PyRaised("struct.error")>>
                 ELSE u

\* uuid_to_serial, lines 187-188: the serial, or the exception raised
uuid_to_serial(uuid0, uuid1, uuid2) ==
    LET sum == PyAdd(uuid0, uuid2)
        hi == IF sum.type = "error" THEN sum ELSE StructPackI(sum)
        lo == StructPackI(uuid1)
    IN  IF hi.type = "error" THEN hi
        ELSE IF lo.type = "error" THEN lo
        ELSE PyTupleObj(UpperStr(BytesHex(hi.v \o Slice(lo.v, 0, 2))))

\* the text of --uuid for three words: 00000000-00000000-00000000 (line 257)
RenderUuid(w) ==
    Digits(w[1][1], 16, 4) \o Digits(w[1][2], 16, 4) \o <<"-">>
        \o Digits(w[2][1], 16, 4) \o Digits(w[2][2], 16, 4) \o <<"-">>
        \o Digits(w[3][1], 16, 4) \o Digits(w[3][2], 16, 4)

\* lines 270-275; an exception here is outside the try of line 280 and ends
\* the program
SelectSerial ==
    /\ mainPc = "args"
    /\ IF args.uuid # <<>>
       THEN LET u == str_to_uuid(args.uuid)
                r == IF Len(u) = 1 THEN u[1] ELSE uuid_to_serial(u[1], u[2], u[3])
            IN  IF r.type = "error"
                THEN /\ error' = r.v[1]
                     /\ exitCode' = 1
                     /\ mainPc' = "end"
                     /\ serial_number' = serial_number
                ELSE /\ serial_number' = r.v
                     /\ mainPc' = "start"
                     /\ UNCHANGED <<error, exitCode>>
       ELSE /\ serial_number' = args.serial_number
            /\ mainPc' = "start"
            /\ UNCHANGED <<error, exitCode>>
    /\ UNCHANGED <<devVars, respVars, tokens, hexfile, flashVars, stm_device, args,
                   words, platform, timers>>

\* uuid_to_serial called with the three words as ints
CallUuidToSerial ==
    /\ mainPc = "args"
    /\ LET r == uuid_to_serial(PyIntObj(words[1]), PyIntObj(words[2]), PyIntObj(words[3]))
       IN  IF r.type = "error"
           THEN error' = r.v[1] /\ serial_number' = serial_number
           ELSE error' = error /\ serial_number' = r.v
    /\ mainPc' = "called"
    /\ UNCHANGED <<devVars, respVars, tokens, hexfile, flashVars, exitCode, stm_device,
                   args, words, platform, timers>>

NextFlash ==
    \/ BuildSectorMap
    \/ Populate
    \/ SetAlternateSafe
    \/ EraseCmd
    \/ SetAddressSafe
    \/ WriteBlock
    \/ ReadBlock
    \/ ReadAbort
    \/ Verify
    \/ Leave
    \/ Finally

(***************************************************************************)
(* Initial states                                                          *)
(***************************************************************************)
ImageSpan == 5

\* the bytes DE AD BE EF, repeated from the start of the flash on
ImageByte(a) == <<222, 173, 190, 239>>[((a - FlashBase + 4) % 4) + 1]

ImageWindow == (FlashBase - 1)..(FlashBase + ImageSpan - 1)
Images == {[a \in D |-> ImageByte(a)] : D \in SUBSET ImageWindow}

SmallFlash(terms, defect) ==
    [label |-> <<"F", "l", "a", "s", "h", " ", " ">>, base |-> FlashBase,
     terms |-> terms, unit |-> " ", mode |-> "g", defect |-> defect]
SmallOtp ==
    [label |-> <<"O", "T", "P">>, base |-> OtpBase,
     terms |-> <<[repeat |-> 1, size |-> 2]>>, unit |-> " ", mode |-> "e",
     defect |-> "none"]
DeviceLayouts ==
    {<<SmallFlash(<<[repeat |-> 1, size |-> 2], [repeat |-> 1, size |-> 6]>>, d)>>
        : d \in Defects}
    \cup {<<SmallFlash(<<[repeat |-> 2, size |-> 3]>>, "none"), SmallOtp>>}

SoundLayouts == {lay \in DeviceLayouts : \A n \in 1..Len(lay) : lay[n].defect = "none"}

InitCommon ==
    /\ alternates = RenderAlternates(layout)
    /\ devPtr = 0
    /\ devState = "DFU_IDLE"
    /\ faults = 0
    /\ sectors = <<>>
    /\ touched_sectors = <<>>
    /\ pass = "none"
    /\ idx = 0
    /\ blocknum = 0
    /\ observed_data = <<>>
    /\ lastStatus = "DFU_IDLE"
    /\ requests = <<>>
    /\ mismatch_pos = -1
    /\ error = "none"
    /\ exitCode = -1
    /\ my_drive = "none"
    /\ lateAttempts = 0
    /\ app_cancellation_token = FALSE

\* no --uuid and no --serial-number given, not on Windows, no timer started
InitSide ==
    /\ args = [uuid |-> <<>>, serial_number |-> <<>>]
    /\ words = <<<<0, 0>>, <<0, 0>>, <<0, 0>>>>
    /\ serial_number = <<>>
    /\ platform = "Linux"
    /\ timers = <<>>

\* the main flow at line 298: a device in DFU mode was found, the responder
\* has seen the discovery signal and returned
InitFlash ==
    /\ layout \in SoundLayouts
    /\ devMem = [a \in DeviceAddrs(layout) |-> 0]
    /\ hexfile \in Images
    /\ faultBudget = 0
    /\ mainPc = "map"
    /\ stm_device = TRUE
    /\ find_odrive_cancellation_token = TRUE
    /\ respPc = "done"
    /\ InitCommon
    /\ InitSide

SpecFlash == InitFlash /\ [][NextFlash]_vars

\* firmware images that start at the flash base
FirmwareImages ==
    {[a \in FlashBase..(FlashBase + n - 1) |-> ImageByte(a)] : n \in 0..ImageSpan}

\* the same, on a device that strays: a download stored wrongly, an error state
\* after the change of the alternate setting
InitStray ==
    /\ layout \in SoundLayouts
    /\ devMem = [a \in DeviceAddrs(layout) |-> 0]
    /\ hexfile \in FirmwareImages
    /\ faultBudget = MaxFaults
    /\ mainPc = "map"
    /\ stm_device = TRUE
    /\ find_odrive_cancellation_token = TRUE
    /\ respPc = "done"
    /\ InitCommon
    /\ InitSide

SpecStray == InitStray /\ [][NextFlash]_vars

\* the program at line 280
Init ==
    /\ layout \in DeviceLayouts
    /\ devMem = [a \in DeviceAddrs(layout) |-> 0]
    /\ hexfile \in FirmwareImages
    /\ faultBudget = 0
    /\ mainPc = "start"
    /\ stm_device = FALSE
    /\ find_odrive_cancellation_token = FALSE
    /\ respPc = "idle"
    /\ InitCommon
    /\ InitSide

Next ==
    \/ StartResponder
    \/ PollDfu
    \/ CancelSearch
    \/ CheckAbort
    \/ ResponderLoop
    \/ ResponderSearch
    \/ ResponderFound
    \/ ResponderCheck
    \/ ResponderProbe
    \/ ResponderEnterDfu
    \/ ResponderSleep
    \/ NextFlash

Spec == Init /\ [][Next]_vars

\* the steps of put_odrive_into_dfu_mode_thread; the thread is scheduled as
\* long as it has a step to take
Responder ==
    \/ ResponderLoop
    \/ ResponderSearch
    \/ ResponderFound
    \/ ResponderCheck
    \/ ResponderProbe
    \/ ResponderEnterDfu
    \/ ResponderSleep

SpecLive == Init /\ [][Next]_vars /\ WF_vars(Responder)

\* get_device_sectors alone, on the descriptor strings of every layout
InitSectors ==
    /\ layout \in Layouts
    /\ devMem = <<>>
    /\ hexfile = <<>>
    /\ faultBudget = 0
    /\ mainPc = "map"
    /\ stm_device = TRUE
    /\ find_odrive_cancellation_token = TRUE
    /\ respPc = "done"
    /\ InitCommon
    /\ InitSide

NextSectors == BuildSectorMap
SpecSectors == InitSectors /\ [][NextSectors]_vars

\* the 32-bit words a UUID is made of in the runs of the serial number
\* selection, as <<hi, lo>>: multiples of 0x3456789B, and 0xFFFFFFFF
MaxWords == 4
HiStride == 13398
LoStride == 30875
WordSamples ==
    {<<(k * HiStride + (k * LoStride) \div HalfLimit) % HalfLimit,
       (k * LoStride) % HalfLimit>> : k \in 0..MaxWords}
        \cup {<<HalfLimit - 1, HalfLimit - 1>>}

\* the serial number of the example of line 260
ExampleSerial == <<"3","8","5","F","3","2","4","D","3","0","3","7">>

\* the program at line 270, and uuid_to_serial on its own
InitSerial ==
    /\ words \in WordSamples \X WordSamples \X WordSamples
    /\ args \in {[uuid |-> RenderUuid(words), serial_number |-> <<>>],
                 [uuid |-> <<>>, serial_number |-> ExampleSerial],
                 [uuid |-> <<>>, serial_number |-> <<>>]}
    /\ serial_number = <<>>
    /\ platform = "Linux"
    /\ timers = <<>>
    /\ layout \in {lay \in SoundLayouts : Len(lay) = 1}
    /\ devMem = [a \in DeviceAddrs(layout) |-> 0]
    /\ hexfile = <<>>
    /\ faultBudget = 0
    /\ mainPc = "args"
    /\ stm_device = FALSE
    /\ find_odrive_cancellation_token = FALSE
    /\ respPc = "idle"
    /\ InitCommon

NextSerial ==
    \/ SelectSerial
    \/ CallUuidToSerial

SpecSerial == InitSerial /\ [][NextSerial]_vars

\* device discovery, lines 280-296, with the threads it starts, on any
\* platform; the main flow is followed up to line 298 or to its end
InitDiscovery ==
    /\ layout \in {lay \in SoundLayouts : Len(lay) = 1}
    /\ devMem = [a \in DeviceAddrs(layout) |-> 0]
    /\ hexfile = <<>>
    /\ faultBudget = 0
    /\ mainPc = "start"
    /\ stm_device = FALSE
    /\ find_odrive_cancellation_token = FALSE
    /\ respPc = "idle"
    /\ InitCommon
    /\ args = [uuid |-> <<>>, serial_number |-> <<>>]
    /\ words = <<<<0, 0>>, <<0, 0>>, <<0, 0>>>>
    /\ serial_number = <<>>
    /\ platform \in {"Windows", "Linux"}
    /\ timers = <<>>

NextDiscovery ==
    \/ StartResponder
    \/ PollDfu
    \/ CancelSearch
    \/ CheckAbort
    \/ Finally
    \/ ResponderLoop
    \/ ResponderSearch
    \/ ResponderFound
    \/ ResponderCheck
    \/ ResponderProbe
    \/ ResponderEnterDfu
    \/ ResponderSleep
    \/ TimerCheck
    \/ TimerSleep
    \/ TimerShow

SpecDiscovery == InitDiscovery /\ [][NextDiscovery]_vars

\* the verify pass at line 341, for one sector: expected_data of every length
\* up to MaxArr against a readback that is the same, differs at one place,
\* differs at one place and at the last, or is shorter or longer by one item
MaxArr == 40
ExpectedData(n) == [j \in 1..n |-> (7 * j) % 256]
Readbacks(n) ==
    LET e == ExpectedData(n)
        differing == {e} \cup {Spoiled(e, p) : p \in 1..n}
                         \cup {Spoiled(Spoiled(e, p), n) : p \in 1..(n - 1)}
    IN  differing \cup {SubSeq(e, 1, n - 1) : k \in {1} \cap 1..n}
                  \cup {Append(e, 255)}

InitMismatch ==
    /\ layout \in {lay \in SoundLayouts : Len(lay) = 1}
    /\ alternates = RenderAlternates(layout)
    /\ devMem = <<>>
    /\ devPtr = FlashBase
    /\ devState = "DFU_IDLE"
    /\ faults = 0
    /\ faultBudget = 0
    /\ hexfile = <<>>
    /\ \E n \in 0..MaxArr :
          /\ sectors = <<[name |-> <<"F", "l", "a", "s", "h">>, alt |-> 0,
                          baseaddr |-> FlashBase, addr |-> FlashBase, len |-> n,
                          mode |-> "g"]>>
          /\ touched_sectors = <<<<sectors[1], ExpectedData(n)>>>>
          /\ observed_data \in Readbacks(n)
    /\ pass = "verify"
    /\ idx = 1
    /\ blocknum = 0
    /\ lastStatus = "DFU_IDLE"
    /\ requests = <<>>
    /\ mismatch_pos = -1
    /\ error = "none"
    /\ exitCode = -1
    /\ mainPc = "compare"
    /\ stm_device = TRUE
    /\ app_cancellation_token = FALSE
    /\ find_odrive_cancellation_token = TRUE
    /\ respPc = "done"
    /\ my_drive = "none"
    /\ lateAttempts = 0
    /\ InitSide

NextMismatch ==
    \/ Verify
    \/ Finally

SpecMismatch == InitMismatch /\ [][NextMismatch]_vars

(***************************************************************************)
(* Properties                                                              *)
(***************************************************************************)
Ops(S) == {i \in 1..Len(requests) : requests[i].op \in S}

\* the place in the sector map of the sector request i is for
MapIndex(i) ==
    CHOOSE n \in 1..Len(sectors) : sectors[n] = touched_sectors[requests[i].idx][1]

\* the sector holds an address the image defines
Overlapped(sector) ==
    \E a \in DOMAIN hexfile : sector.addr <= a /\ a < sector.addr + sector.len

\* the number of download blocks entry k needs
BlocksOf(k) == touched_sectors[k][1].len \div gcd(touched_sectors[k][1].len, MAX_TRANSFER_SIZE)

\* C1: the sequencer runs three passes that do not interleave: when the first
\* write_block is issued every touched sector has been erased, when the first
\* read_block is issued every block of every touched sector has been written,
\* no erase follows a write or a read, no write follows a read, and within
\* each pass the sectors come in sector-map order.
C1_ThreePasses ==
    /\ \A j \in Ops({"write", "read"}) :
          \A k \in 1..Len(touched_sectors) :
             \E i \in Ops({"erase"}) : i < j /\ requests[i].idx = k
    /\ \A j \in Ops({"read"}) :
          \A k \in 1..Len(touched_sectors) :
             \A b \in 0..(BlocksOf(k) - 1) :
                \E i \in Ops({"write"}) :
                   i < j /\ requests[i].idx = k /\ requests[i].block = b
    /\ \A i \in Ops({"erase"}) : \A j \in Ops({"write", "read"}) : i < j
    /\ \A i \in Ops({"write"}) : \A j \in Ops({"read"}) : i < j
    /\ \A i, j \in Ops({"erase"}) : i < j => MapIndex(i) < MapIndex(j)
    /\ \A i, j \in Ops({"write"}) : i < j => MapIndex(i) <= MapIndex(j)
    /\ \A i, j \in Ops({"read"}) : i < j => MapIndex(i) <= MapIndex(j)

\* C1 witness: a run over two touched sectors has been through all three passes
C1_Witness ==
    /\ Len(touched_sectors) = 2
    /\ pass = "jump"
    /\ Cardinality(Ops({"erase"})) = 2
    /\ Cardinality(Ops({"read"})) > 2

\* the sectors of the map that start at the address request i carries
SectorsAt(i) == {n \in 1..Len(sectors) : sectors[n].addr = requests[i].addr}

\* C2 as stated: no erase, set-address, write_block or read_block request is
\* ever issued for a sector that no image segment overlaps.
C2_Original ==
    \A i \in Ops({"erase", "set_address", "write", "read"}) :
        \A n \in SectorsAt(i) : Overlapped(sectors[n])

\* C2 as amended: no erase, write_block or read_block request, and no
\* set-address request of the program or verify pass, is issued for a sector
\* that no image segment overlaps; the one other set-address request is the one
\* before the jump, and it always carries the address 0x08000000.
C2_UntouchedSkipped ==
    /\ \A i \in Ops({"erase", "set_address", "write", "read"}) :
          requests[i].pass # "jump" =>
             /\ SectorsAt(i) # {}
             /\ \A n \in SectorsAt(i) : Overlapped(sectors[n])
    /\ \A i \in Ops({"erase", "set_address", "write", "read"}) :
          requests[i].pass = "jump" =>
             requests[i].op = "set_address" /\ requests[i].addr = JUMP_ADDRESS

\* C2 witness: all passes are over, one sector was touched and another was not
C2_Witness ==
    /\ pass = "jump"
    /\ touched_sectors # <<>>
    /\ \E n \in 1..Len(sectors) : ~Overlapped(sectors[n])
    /\ Ops({"read"}) # {}

\* what the image asks a sector to hold: its bytes, 0xFF where it has none
Payload(sector) ==
    [j \in 1..sector.len |->
        IF (sector.addr + j - 1) \in DOMAIN hexfile
        THEN hexfile[sector.addr + j - 1] ELSE 255]

\* C3: against a device that never strays, the verify pass finds no mismatch,
\* and once the three passes are over every touched sector's memory equals its
\* payload (the image's bytes, 0xFF elsewhere, as long as the sector) and each
\* pass has processed exactly the touched sectors.
C3_EndToEnd ==
    faults = 0 =>
        /\ mismatch_pos = -1
        /\ error # "Exception"
        /\ pass = "jump" =>
              /\ \A k \in 1..Len(touched_sectors) :
                    LET sec == touched_sectors[k][1]
                    IN  /\ touched_sectors[k][2] = Payload(sec)
                        /\ \A j \in 1..sec.len :
                              DevByte(sec.addr + j - 1) = Payload(sec)[j]
              /\ \A op \in {"erase", "write", "read", "abort_upload"} :
                    {requests[i].idx : i \in Ops({op})} = 1..Len(touched_sectors)
              /\ Cardinality(Ops({"erase"})) = Len(touched_sectors)
              /\ Cardinality(Ops({"abort_upload"})) = Len(touched_sectors)

\* C3 witness: the passes are over on a faithful device, with two touched
\* sectors, one of them partly padded
C3_Witness ==
    /\ faults = 0
    /\ pass = "jump"
    /\ Len(touched_sectors) = 2
    /\ \E k \in 1..2 : \E j, l \in 1..Len(touched_sectors[k][2]) :
          /\ (touched_sectors[k][1].addr + j - 1) \notin DOMAIN hexfile
          /\ (touched_sectors[k][1].addr + l - 1) \in DOMAIN hexfile

\* the requests of jump_to_application
JumpRequests == {i \in 1..Len(requests) : requests[i].pass = "jump"}

\* C4: the set-address of the jump and the leave request are issued only
\* after every touched sector has been erased, programmed, read back and found
\* equal to its payload; once a readback has differed no further sector is
\* read, no request of the jump is issued and the device stays in DFU mode.
C4_JumpOnlyAfterVerify ==
    /\ JumpRequests # {} =>
          /\ \A k \in 1..Len(touched_sectors) :
                /\ \E i \in Ops({"erase"}) : requests[i].idx = k
                /\ \E i \in Ops({"abort_upload"}) : requests[i].idx = k
                /\ \A j \in 1..touched_sectors[k][1].len :
                      DevByte(touched_sectors[k][1].addr + j - 1)
                          = touched_sectors[k][2][j]
          /\ mismatch_pos = -1
          /\ error # "Exception"
    /\ mismatch_pos >= 0 =>
          /\ requests[Len(requests)].op = "abort_upload"
          /\ \A i \in Ops({"read"}) : requests[i].idx <= requests[Len(requests)].idx
          /\ devState # "DFU_MANIFEST"
          /\ error = "RuntimeError"

\* C4 witness: the readback of the first of two touched sectors differed and
\* the run is over
C4_Witness ==
    /\ mismatch_pos >= 0
    /\ mainPc = "end"
    /\ Len(touched_sectors) = 2
    /\ idx = 1
    /\ exitCode = 1

\* the state a wait must end in after the request
Required(r) ==
    IF r.op \in {"set_address", "erase", "write"} THEN "DFU_DOWNLOAD_IDLE"
    ELSE IF r.op = "abort" THEN "DFU_IDLE"
    ELSE "DFU_MANIFEST"

BusyStates == {"DFU_DOWNLOAD_BUSY", "DFU_DOWNLOAD_SYNC", "DFU_MANIFEST_SYNC"}

\* C5: when the wait after a set-address, abort, erase, write_block or leave
\* request ends in another state than the required one, the run fails with a
\* RuntimeError; once the run has failed no request is issued any more; and
\* no request is ever issued while the last status read shows a busy state.
C5_FatalProtocolError ==
    /\ [](/\ \A i \in 1..Len(requests) : requests[i].prev \notin BusyStates
          /\ (/\ requests # <<>>
              /\ requests[Len(requests)].op
                    \in {"set_address", "abort", "erase", "write", "leave"}
              /\ lastStatus # Required(requests[Len(requests)]))
             => error = "RuntimeError" /\ mainPc \in {"finally", "end"})
    /\ [][error # "none" => requests' = requests]_vars

\* C5 witness: the wait budget of an erase elapsed with the device still busy,
\* and the run is over
C5_Witness ==
    /\ mainPc = "end"
    /\ lastStatus = "DFU_DOWNLOAD_BUSY"
    /\ requests[Len(requests)].op = "erase"
    /\ Len(touched_sectors) = 2
    /\ exitCode = 1

\* C6 as stated: the responder sets the whole-program signal only for a device
\* without enter_dfu_mode, and ends with it; once the signal is set, the main
\* flow issues no erase, write, read or leave request and does not end as a
\* successful flash.
C6_Original ==
    /\ [][app_cancellation_token' # app_cancellation_token =>
             my_drive = "legacy" /\ respPc' = "done"]_vars
    /\ [][app_cancellation_token =>
             /\ \A i \in (Len(requests) + 1)..Len(requests') :
                   requests'[i].op \notin {"erase", "write", "read", "leave"}
             /\ (exitCode' = 0 => exitCode = 0)]_vars

\* C7: after the discovery signal is set the responder begins at most one
\* find_any call; a check of the signal that finds it set ends the thread;
\* the thread, once ended, stays ended; and once the signal is set the thread
\* does end.
C7_ResponderStops ==
    /\ [](lateAttempts <= 1)
    /\ (find_odrive_cancellation_token ~> respPc = "done")
    /\ [][(/\ find_odrive_cancellation_token
           /\ respPc \in {"loop", "found"}
           /\ respPc' # respPc) => respPc' = "done"]_vars
    /\ [][respPc = "done" => respPc' = "done"]_vars

\* C7 witness: the responder began one find_any call after the signal was set
\* and has ended
C7_Witness ==
    /\ lateAttempts = 1
    /\ respPc = "done"
    /\ find_odrive_cancellation_token

\* a descriptor of the layout is malformed
Malformed(lay) == \E n \in 1..Len(lay) : lay[n].defect # "none"

\* C8 as stated: with a malformed descriptor the sector-map building fails, no
\* sector map is produced and no erase or write request is issued.
C8_Original ==
    Malformed(layout) =>
        /\ sectors = <<>>
        /\ Ops({"erase", "write"}) = {}
        /\ mainPc \notin {"start", "poll", "cancel", "check", "map"}
              => error # "none"

\* the sectors of the map that belong to alternate setting alt
OfAlternate(alt) == SelectSeq(sectors, LAMBDA sec : sec.alt = alt)

RECURSIVE SumRepeat(_)
SumRepeat(terms) ==
    IF terms = <<>> THEN 0 ELSE Head(terms).repeat + SumRepeat(Tail(terms))

\* the layout term the j-th sector of an alternate comes from
TermOf(terms, j) ==
    CHOOSE i \in 1..Len(terms) :
        /\ SumRepeat(SubSeq(terms, 1, i - 1)) < j
        /\ j <= SumRepeat(SubSeq(terms, 1, i))

\* C9: for well-formed descriptors get_device_sectors succeeds and emits, for
\* every alternate, sum(repeat_i) sectors in layout order; the first starts at
\* the base address of its alternate, each later one where the one before it
\* ends, at a strictly greater address; a sector of term i is size_i * unit_i
\* long; alternates follow each other in the order reported.
C9_SectorMap ==
    (mainPc # "map" /\ ~Malformed(layout)) =>
        /\ error = "none"
        /\ \A n \in 1..Len(layout) :
              LET S == OfAlternate(n - 1)
                  a == layout[n]
              IN  /\ Len(S) = SumRepeat(a.terms)
                  /\ S # <<>> => S[1].addr = a.base
                  /\ \A j \in 2..Len(S) :
                        /\ S[j].addr = S[j - 1].addr + S[j - 1].len
                        /\ S[j].addr > S[j - 1].addr
                  /\ \A j \in 1..Len(S) :
                        /\ S[j].len = a.terms[TermOf(a.terms, j)].size
                                       * SIZE_MULTIPLIERS[UnitOf(a, TermOf(a.terms, j))]
                        /\ S[j].baseaddr = a.base
        /\ \A i, j \in 1..Len(sectors) : i < j => sectors[i].alt <= sectors[j].alt
        /\ Len(sectors) = Len(DeviceSectors(layout))

\* C9 witness: a map was built from two alternates, the first with two terms
\* of mixed units and a repeat of two
C9_Witness ==
    /\ mainPc = "populate"
    /\ Len(layout) = 2
    /\ Len(layout[1].terms) = 2
    /\ layout[1].unit = "mix"
    /\ layout[1].terms[1].repeat = 2
    /\ Len(sectors) > 3

\* segment <<start, end>> and the sector have an address in common
Intersects(seg, sector) ==
    seg[1] < sector.addr + sector.len /\ seg[2] > sector.addr

\* the sectors populate_sectors has selected
Selected == {touched_sectors[k][1] : k \in 1..Len(touched_sectors)}

\* C10: populate_sectors selects a sector if and only if a segment of the
\* image intersects [addr, addr + len); a segment that ends where a sector
\* starts, or starts where it ends, does not select it; an empty image selects
\* no sector.
C10_TouchedIffIntersects ==
    mainPc \notin {"map", "populate"} =>
        /\ \A n \in 1..Len(sectors) :
              sectors[n] \in Selected
                  <=> \E i \in 1..Len(Segments(hexfile)) :
                         Intersects(Segments(hexfile)[i], sectors[n])
        /\ \A n \in 1..Len(sectors) :
              (\A i \in 1..Len(Segments(hexfile)) :
                  \/ Segments(hexfile)[i][2] <= sectors[n].addr
                  \/ Segments(hexfile)[i][1] >= sectors[n].addr + sectors[n].len)
                  => sectors[n] \notin Selected
        /\ DOMAIN hexfile = {} => touched_sectors = <<>>

\* C10 witness: a segment ends exactly where the second sector starts; the
\* first sector is selected, the second is not
C10_Witness ==
    /\ mainPc \notin {"map", "populate"}
    /\ Len(sectors) >= 2
    /\ \E i \in 1..Len(Segments(hexfile)) : Segments(hexfile)[i][2] = sectors[2].addr
    /\ sectors[1] \in Selected
    /\ sectors[2] \notin Selected

\* the serial the claim gives for three words
ExpectedSerial(w) ==
    Digits((w[1][1] + w[3][1] + (w[1][2] + w[3][2]) \div HalfLimit) % HalfLimit, 16, 4)
        \o Digits((w[1][2] + w[3][2]) % HalfLimit, 16, 4)
        \o Digits(w[2][1], 16, 4)

\* C11 as stated: for every three 32-bit words the mapping yields the 12
\* upper-case hexadecimal characters of w0 + w2 and of the two most significant
\* bytes of w1, both when uuid_to_serial is called with the words and when the
\* program is given the UUID with --uuid.
C11_Original ==
    /\ mainPc = "called" =>
          error = "none" /\ Len(serial_number) = 12 /\ serial_number = ExpectedSerial(words)
    /\ (mainPc \in {"start", "end"} /\ args.uuid # <<>>) =>
          error = "none" /\ Len(serial_number) = 12 /\ serial_number = ExpectedSerial(words)

\* the places, counted from 0, at which two sequences of equal length differ
Differing(a, b) == {k \in 0..(Len(a) - 1) : a[k + 1] # b[k + 1]}

\* C12: for sequences of equal length get_first_mismatch_index returns the
\* least place at which they differ, and none exactly when they are the same;
\* for sequences of different length it raises; the verify pass fails on a
\* mismatch, with the window starting at the place rounded down to a
\* multiple of 16, and passes on none.
C12_MismatchLocator ==
    LET a == observed_data
        b == touched_sectors[1][2]
        m == get_first_mismatch_index(a, b)
    IN  /\ Len(a) # Len(b) => m = -2
        /\ Len(a) = Len(b) =>
              /\ m = -1 <=> a = b
              /\ m = -1 <=> Differing(a, b) = {}
              /\ Differing(a, b) # {} =>
                    m \in Differing(a, b) /\ \A k \in Differing(a, b) : m <= k
        /\ mainPc # "compare" =>
              /\ Len(a) # Len(b) => error = "Exception" /\ mismatch_pos = -1
              /\ (Len(a) = Len(b) /\ a = b) => error = "none" /\ mismatch_pos = -1
              /\ (Len(a) = Len(b) /\ a # b) =>
                    /\ error = "RuntimeError"
                    /\ mismatch_pos = 16 * (m \div 16)
                    /\ mismatch_pos <= m /\ m < mismatch_pos + 16

\* C12 witness: the sequences differ first at place 37 and again later; the
\* verify pass has failed with the window starting at 32
C12_Witness ==
    /\ mainPc = "finally"
    /\ Len(observed_data) = Len(touched_sectors[1][2])
    /\ 37 \in Differing(observed_data, touched_sectors[1][2])
    /\ Cardinality(Differing(observed_data, touched_sectors[1][2])) = 2
    /\ get_first_mismatch_index(observed_data, touched_sectors[1][2]) = 37
    /\ mismatch_pos = 32

\* C13 as stated: a clear-status request is issued only after the state read
\* after a change of the alternate setting was ERROR, and when the request that
\* follows set_alternate_safe (an erase or a set-address) is issued, the last
\* state observed is not ERROR.
C13_Original ==
    /\ \A i \in Ops({"clear_status"}) :
          /\ i > 1
          /\ requests[i - 1].op = "set_alternate"
          /\ requests[i].prev = "DFU_ERROR"
    /\ \A i \in Ops({"erase", "set_address"}) :
          requests[i].pass # "jump" =>
             /\ i > 1
             /\ requests[i - 1].op \in {"set_alternate", "clear_status"}
             /\ requests[i].prev # "DFU_ERROR"

\* C14: an abort is issued only right after a set-address whose wait ended in
\* DOWNLOAD_IDLE; a set-address is followed by nothing but its abort, and the
\* run fails when no abort follows; the request that follows an abort is
\* issued with IDLE as the last state observed; after a set_address_safe that
\* has returned the device is in IDLE, and a wait after an abort that ended in
\* another state has failed the run.
C14_SetAddressSequence ==
    /\ \A i \in Ops({"abort"}) :
          /\ i > 1
          /\ requests[i - 1].op = "set_address"
          /\ requests[i].prev = "DFU_DOWNLOAD_IDLE"
    /\ \A i \in Ops({"set_address"}) :
          IF i < Len(requests)
          THEN requests[i + 1].op = "abort"
          ELSE error = "RuntimeError" /\ lastStatus # "DFU_DOWNLOAD_IDLE"
    /\ \A i \in 2..Len(requests) :
          requests[i - 1].op = "abort" => requests[i].prev = "DFU_IDLE"
    /\ (requests # <<>> /\ requests[Len(requests)].op = "abort") =>
          IF error = "none"
          THEN lastStatus = "DFU_IDLE" /\ devState = "DFU_IDLE"
          ELSE error = "RuntimeError" /\ lastStatus # "DFU_IDLE"

\* C14 witness: a set_address_safe has returned in the program pass and the
\* first block has been written after it
C14_Witness ==
    /\ Len(requests) > 2
    /\ requests[Len(requests)].op = "write"
    /\ requests[Len(requests)].prev = "DFU_IDLE"
    /\ requests[Len(requests) - 1].op = "abort"
    /\ requests[Len(requests) - 2].op = "set_address"
    /\ error = "none"

\* the requests of kind op made for entry k of touched_sectors, in order
RequestsFor(op, k) ==
    SelectSeq(requests, LAMBDA r : r.op = op /\ r.idx = k)

\* the sector lengths of the example of line 47: 16K, 64K and 128K
ExampleLengths == {16 * 1024, 64 * 1024, 128 * 1024}

\* C15: for every touched sector the chunk size gcd(len, 2048) divides the
\* sector length; the write_block requests made for it so far carry the block
\* numbers 0, 1, 2, ... in this order and a chunk each, and so do the
\* read_block requests; once the program pass is over there are len / chunk
\* write_block requests for it, once its readback is complete there are as
\* many read_block requests and the readback is as long as the sector; the
\* chunk size of the sector lengths of the example is 2048 and divides them.
C15_Chunking ==
    /\ \A len \in ExampleLengths :
          /\ TransferSize([len |-> len]) = MAX_TRANSFER_SIZE
          /\ len % TransferSize([len |-> len]) = 0
          /\ ReadCount([len |-> len]) * MAX_TRANSFER_SIZE = len
    /\ \A k \in 1..Len(touched_sectors) :
        LET sec == touched_sectors[k][1]
            chunk == gcd(sec.len, MAX_TRANSFER_SIZE)
            n == sec.len \div chunk
            w == RequestsFor("write", k)
            r == RequestsFor("read", k)
        IN  /\ chunk > 0
            /\ sec.len % chunk = 0
            /\ n * chunk = Len(touched_sectors[k][2])
            /\ Len(w) <= n /\ Len(r) <= n
            /\ \A j \in 1..Len(w) : w[j].block = j - 1 /\ w[j].size = chunk
            /\ \A j \in 1..Len(r) : r[j].block = j - 1 /\ r[j].size = chunk
            /\ (pass \in {"verify", "jump"} /\ error = "none") => Len(w) = n
            /\ (pass = "jump" /\ error = "none") => Len(r) = n
            /\ (k = idx /\ mainPc = "compare") =>
                  Len(r) = n /\ Len(observed_data) = sec.len

\* C15 witness: a sector of six bytes was written in three chunks of two and
\* read back in three
C15_Witness ==
    /\ mainPc = "compare"
    /\ Entry[1].len = 6
    /\ Len(RequestsFor("write", idx)) = 3
    /\ Len(RequestsFor("read", idx)) = 3
    /\ RequestsFor("write", idx)[3].size = 2
    /\ Len(observed_data) = 6

\* C16 as stated: a background thread begins a blocking wait (find_any,
\* time.sleep) only straight after a check of its cancellation signal, checks
\* the signal straight after a find_any, and once a check has found the signal
\* set it ends without another device access, wait or message.
C16_Original ==
    /\ [][(respPc' \in {"call", "sleep"} /\ respPc' # respPc)
             => respPc \in {"loop", "found"}]_vars
    /\ [][(respPc = "search" /\ respPc' # respPc) => respPc' = "found"]_vars
    /\ [][(/\ find_odrive_cancellation_token
           /\ respPc \in {"loop", "found"}
           /\ respPc' # respPc) => respPc' = "done" /\ timers' = timers]_vars
    /\ [][\A k \in 1..Len(timers) :
             /\ (timers'[k].pc = "sleep" /\ timers[k].pc # "sleep")
                   => timers[k].pc = "check"
             /\ timers[k].seen => timers'[k] = timers[k] /\ timers[k].pc = "done"
             /\ timers'[k].seen => ~timers'[k].shown]_vars

\* C17 as stated: the message is printed only after ten one-second waits with
\* the token found unset at every check, and never when a check found it set.
C17_Original ==
    \A k \in 1..Len(timers) :
        /\ timers[k].shown => timers[k].slept = 10 /\ ~timers[k].seen
        /\ timers[k].seen => ~timers[k].shown

\* C18 as stated: the responder never calls enter_dfu_mode after the discovery
\* signal has been set.
C18_Original ==
    [][(respPc = "enter" /\ respPc' # respPc) => ~find_odrive_cancellation_token]_vars

\* the positions of the main flow from line 298 up to the jump
Flashing ==
    {"map", "populate", "alt", "erase", "addr", "write", "read", "rabort", "compare",
     "leave"}

\* C19: the main flow is past the check of line 294 only with a device found
\* and, at that check, the whole-program signal unset; requests are issued
\* only with a device found; a run that left the poll loop without a device
\* or met the signal set at the check ends in SystemExit with status 1 and
\* without a request; and a signal, once set, stays set.
C19_DeviceHeld ==
    /\ [](/\ mainPc \in Flashing => stm_device /\ error = "none"
          /\ requests # <<>> => stm_device
          /\ error = "SystemExit" => requests = <<>> /\ sectors = <<>>
          /\ (error = "SystemExit" /\ mainPc = "end") => exitCode = 1
          /\ (mainPc = "check" /\ ~stm_device) => app_cancellation_token)
    /\ [][(mainPc = "check" /\ mainPc' # mainPc) =>
             IF app_cancellation_token
             THEN error' = "SystemExit" /\ mainPc' = "finally"
             ELSE stm_device /\ mainPc' = "map"]_vars
    /\ [][app_cancellation_token => app_cancellation_token']_vars
    /\ [][find_odrive_cancellation_token => find_odrive_cancellation_token']_vars

\* C19 witness: a device was found, but the whole-program signal was set
\* before the check of line 294 and the run has ended with status 1
C19_Witness ==
    /\ stm_device
    /\ app_cancellation_token
    /\ error = "SystemExit"
    /\ mainPc = "end"
    /\ exitCode = 1
    /\ requests = <<>>

\* C20: when the main flow has ended, however it ended, the discovery signal
\* is set; and, the responder being scheduled and find_any returning once its
\* token is set, the end of the main flow leads to the end of the responder
\* thread, which then stays ended.
C20_SignalSetAtEnd ==
    /\ [](mainPc = "end" => find_odrive_cancellation_token)
    /\ [](mainPc = "end" => exitCode \in {0, 1})
    /\ (mainPc = "end" ~> [](respPc = "done"))

\* C20 witness: the main flow has ended on a transport error in the poll
\* loop, and the responder, which was waiting in find_any, has ended
C20_Witness ==
    /\ mainPc = "end"
    /\ error = "USBError"
    /\ exitCode = 1
    /\ respPc = "done"
    /\ lateAttempts = 0
    /\ find_odrive_cancellation_token

====
